---- MODULE Spec2Model ----
(***************************************************************************)
(* SessionManager of claude-search-proxy: the request queue, the drain     *)
(* loop, session rotation, background pre-warming, warmUp and reset.       *)
(* One action per synchronous run of code between two suspension points    *)
(* of the event loop.                                                      *)
(***************************************************************************)
EXTENDS Integers, Sequences, FiniteSets, TLC

\* ---- program constants -------------------------------------------------
MAX_QUEUE_SIZE == 50
maxRetries == 3

\* ---- bounds of the model -----------------------------------------------
\* Spec: any sequence of execute, warmUp and reset calls
MaxSearches == 2     \* configured maxSessionSearches ranges over 1..MaxSearches
MaxTasks == 3        \* execute() calls accepted
MaxIds == 2          \* session ids randomUUID() hands out
MaxWarmUps == 1      \* warmUp() calls
MaxResets == 1       \* reset() calls
\* SpecWarmUp: warmUp calls with all their attempts, and execute calls
MaxSearchesWarmUp == 2   \* configured maxSessionSearches ranges over 1..MaxSearchesWarmUp
MaxTasksWarmUp == 2      \* execute() calls accepted
MaxIdsWarmUp == 4        \* session ids randomUUID() hands out
MaxWarmUpsWarmUp == 2    \* warmUp() calls
\* SpecClaude: execute calls run by executeClaude
MaxSearchesPreWarm == 4  \* configured maxSessionSearches ranges over 1..MaxSearchesPreWarm
MaxTasksPreWarm == 3     \* execute() calls accepted
MaxIdsPreWarm == 3       \* session ids randomUUID() hands out
MaxWarmUpsPreWarm == 1   \* warmUp() calls

MaxSearchesCleanup == 2  \* configured maxSessionSearches ranges over 1..MaxSearchesCleanup
MaxTasksCleanup == 3     \* execute() calls accepted
MaxIdsCleanup == 3       \* session ids randomUUID() hands out

MaxSearchesReset == 2    \* configured maxSessionSearches ranges over 1..MaxSearchesReset
MaxTasksReset == 3       \* execute() calls accepted
MaxIdsReset == 4         \* session ids randomUUID() hands out
MaxResetsReset == 1      \* reset() calls

MaxExitCode == 2         \* the exit codes of the process range over 0..MaxExitCode

MaxTasksClaude == 1      \* execute() calls accepted
MaxTasksSpawn == 2       \* execute() calls accepted in SpecSpawn
MaxModelLen == 2         \* characters in the configured model identifier
\* SpecExecute: execute calls only, enough of them to fill the queue
MaxSearchesExecute == 3  \* configured maxSessionSearches ranges over 1..MaxSearchesExecute
MaxIdsExecute == 3       \* session ids randomUUID() hands out
QueueSlack == 2          \* execute() calls accepted beyond MAX_QUEUE_SIZE
MaxRejected == 1         \* execute() calls rejected with the queue-full error

VARIABLES
    maxSessionSearches,     \* config.maxSessionSearches
    model,                  \* config.model: the characters of the model identifier
    session,                \* this.session: [sessionId, searchCount], sessionId 0 is null
    nextSession,            \* this.nextSession: <<>> is null, <<s>> a SessionState
    preWarmingInProgress,   \* this.preWarmingInProgress
    warmupComplete,         \* this.warmupComplete
    queue,                  \* this.queue: the waiting tasks, each named by its query
    processing,             \* this.processing
    loops,                  \* the running processQueue() invocations
    calls,                  \* the executor calls in flight
    warmups,                \* the running warmUp() invocations
    warmUpLog,              \* how the promises of the ended warmUp() calls settled
    uuid,                   \* ids handed out by randomUUID() so far
    cleaned,                \* ids handed to cleanupSession
    cleanups,               \* the cleanup() started for each of them: running, done or failed
    submitted,              \* execute() calls accepted so far; the n-th query is n
    taskLimit,              \* how many execute() calls the environment makes
    idLimit,                \* how many ids randomUUID() hands out
    warmUpsLeft,            \* how many warmUp() calls the environment still makes
    resetsLeft,             \* how many reset() calls the environment still makes
    rejected,               \* execute() calls that threw the queue-full error
    invoked,                \* the executor's call log: query of the latest search call
    searched,               \* the executor's call log: successful searches per session id
    settledCount,           \* caller promises settled so far
    lastSettled,            \* the latest settled caller promise
    proc,                   \* the executeClaude invocations, by the call that made them
    closeRun                \* two 'close' events side by side and what the handler made of each

vars == <<maxSessionSearches, model, session, nextSession, preWarmingInProgress,
          warmupComplete, queue, processing, loops, calls, warmups, warmUpLog,
          uuid, cleaned, cleanups, submitted, taskLimit, idLimit, warmUpsLeft, resetsLeft,
          rejected, invoked, searched, settledCount, lastSettled, proc, closeRun>>

\* the fields of the SessionManager object
manager == <<session, nextSession, preWarmingInProgress, warmupComplete,
             queue, processing>>

\* the model identifier every run of the abstract executor is configured with
DefaultModel == <<"a">>

Failures == {"timeout", "already in use"}
Outcomes == {"ok"} \cup Failures

NullSession == [sessionId |-> 0, searchCount |-> 0]

\* randomUUID(): an id never handed out before
randomUUID == uuid + 1

\* the model stops handing out ids at idLimit: a step that calls randomUUID()
\* needs one to be left
FreshOK(needed) == needed => uuid < idLimit

getSessionInfo ==
    [sessionId |-> session.sessionId, searchCount |-> session.searchCount,
     maxSearches |-> maxSessionSearches]

\* ---- session helpers ---------------------------------------------------

\* rotation one search late
shouldRotateLate(s) == s.searchCount > maxSessionSearches

\* rotation before every search
shouldRotateAlways(s) == TRUE

shouldRotateSession(s) == s.searchCount >= maxSessionSearches

initializeSession(id) == [sessionId |-> id, searchCount |-> 0]

\* rotation that ignores the pre-warmed session
rotateCold(s, n, id) ==
    [session     |-> initializeSession(id),
     nextSession |-> <<>>,
     fresh       |-> TRUE,
     retired     |-> IF s.sessionId # 0 THEN {s.sessionId} ELSE {}]

\* rotation that takes the pre-warmed session and leaves it in the slot
rotateKeepingSlot(s, n, id) ==
    [session     |-> IF n # <<>> THEN n[1] ELSE initializeSession(id),
     nextSession |-> n,
     fresh       |-> n = <<>>,
     retired     |-> IF s.sessionId # 0 THEN {s.sessionId} ELSE {}]

\* rotateSession: the pre-warmed session if there is one, else a fresh one;
\* the old id, when there is one, goes to cleanupSession
rotateSession(s, n, id) ==
    [session     |-> IF n # <<>> THEN n[1] ELSE initializeSession(id),
     nextSession |-> <<>>,
     fresh       |-> n = <<>>,
     retired     |-> IF s.sessionId # 0 THEN {s.sessionId} ELSE {}]

\* executeSearch up to the executor call: rotate if due, initialize if needed
prepareSession(s, n, id) ==
    LET r == IF shouldRotateSession(s)
             THEN rotateSession(s, n, id)
             ELSE [session |-> s, nextSession |-> n, fresh |-> FALSE, retired |-> {}]
    IN  IF r.session.sessionId = 0
        THEN [r EXCEPT !.session = initializeSession(id), !.fresh = TRUE]
        ELSE r

\* a success counted twice
countTwice(s, outcome) ==
    IF outcome = "ok" THEN [s EXCEPT !.searchCount = @ + 2] ELSE s

\* executeSearch after the executor call: count a success, leave a failure alone
afterSearch(s, outcome) ==
    IF outcome = "ok" THEN [s EXCEPT !.searchCount = @ + 1] ELSE s

\* a guard that opens one search early
preWarmDueEarly(s) ==
    ~ (maxSessionSearches - s.searchCount > 3 \/ preWarmingInProgress \/ nextSession # <<>>)

\* maybePreWarmNextSession's guard, on the session after the increment
preWarmDue(s) ==
    ~ (maxSessionSearches - s.searchCount > 2 \/ preWarmingInProgress \/ nextSession # <<>>)

\* ---- queue helpers -----------------------------------------------------

\* the capacity check off by one
queueFullLate(q) == Len(q) > MAX_QUEUE_SIZE

\* the capacity check counting the task being executed
queueFullCountingRunning(q) == Len(q) + Cardinality(loops) >= MAX_QUEUE_SIZE

queueFull(q) == Len(q) >= MAX_QUEUE_SIZE

\* taking the newest task instead of the oldest
pop(q) == [task |-> q[Len(q)], rest |-> SubSeq(q, 1, Len(q) - 1)]

\* taking the oldest task and discarding the others
spliceAll(q) == [task |-> Head(q), rest |-> <<>>]

\* this.queue.shift()
shift(q) == [task |-> Head(q), rest |-> Tail(q)]

\* a loop that a failed task breaks out of
drainStopsOnFailure(outcome, q) == outcome = "ok" /\ Len(q) > 0

\* the while condition of processQueue, evaluated after a task has settled
\* with the given outcome (the try/catch keeps the outcome out of it)
drainContinues(outcome, q) == Len(q) > 0

\* every search taken for the first of its session
alwaysFirst(s) == TRUE

\* executeSearch: the first search of a session creates it, the later ones resume it
isFirstSearch(s) == s.searchCount = 0

ping(id) == [kind |-> "prewarm", sessionId |-> id, isFirstSearch |-> TRUE, query |-> 0]

\* a cleanup that is never started
cleanupSkipped(running, ids) == running

\* cleanupSession(id): cleanup() is started and not awaited
cleanupSession(running, ids) ==
    [id \in DOMAIN running \cup ids |->
        IF id \in DOMAIN running THEN running[id] ELSE "running"]

\* ---- the drain loop ----------------------------------------------------

\* One iteration of processQueue's loop from the shift to the executor call
\* made inside executeSearch, on queue q; others are the other running loops.
runNext(q, others) ==
    LET sh == shift(q)
        p  == prepareSession(session, nextSession, randomUUID)
    IN  /\ queue' = sh.rest
        /\ session' = p.session
        /\ nextSession' = p.nextSession
        /\ uuid' = IF p.fresh THEN uuid + 1 ELSE uuid
        /\ cleaned' = cleaned \cup p.retired
        /\ cleanups' = cleanupSession(cleanups, p.retired)
        /\ calls' = calls \cup {[kind |-> "search", sessionId |-> p.session.sessionId,
                                 isFirstSearch |-> isFirstSearch(p.session),
                                 query |-> sh.task]}
        /\ loops' = others \cup {[task |-> sh.task, pc |-> "exec", outcome |-> "none",
                                  result |-> 0, sessionId |-> p.session.sessionId,
                                  callCount |-> p.session.searchCount,
                                  startId |-> session.sessionId,
                                  startCount |-> session.searchCount]}
        /\ invoked' = sh.task

\* execute(query): reject on a full queue, else push and call processQueue
Execute ==
    IF queueFull(queue)
    THEN /\ rejected < MaxRejected
         /\ rejected' = rejected + 1
         /\ UNCHANGED <<maxSessionSearches, model, warmUpLog, session, nextSession, preWarmingInProgress,
                        warmupComplete, queue, processing, loops, calls, warmups, uuid,
                        cleaned, cleanups, submitted, taskLimit, idLimit, warmUpsLeft, resetsLeft,
                        invoked, searched, settledCount, lastSettled>>
    ELSE /\ submitted < taskLimit
         /\ FreshOK(~processing /\ prepareSession(session, nextSession, randomUUID).fresh)
         /\ submitted' = submitted + 1
         /\ LET q1 == Append(queue, submitted + 1) IN
            IF processing \/ Len(q1) = 0
            THEN /\ queue' = q1
                 /\ UNCHANGED <<session, nextSession, uuid, cleaned, cleanups, calls, loops,
                                invoked, processing>>
            ELSE /\ processing' = TRUE
                 /\ runNext(q1, loops)
         /\ UNCHANGED <<maxSessionSearches, model, warmUpLog, preWarmingInProgress, warmupComplete,
                        warmups, taskLimit, idLimit, warmUpsLeft, resetsLeft, rejected,
                        searched, settledCount, lastSettled>>

\* The executor call c of a queued search returns with outcome o:
\* executeSearch resumes after its await.
SearchReturns(c, o) ==
    /\ c.kind = "search"
    /\ FreshOK(o = "ok" /\ preWarmDue(afterSearch(session, o)))
    /\ \E L \in loops :
         /\ L.pc = "exec"
         /\ L.task = c.query
         /\ loops' = (loops \ {L}) \cup
                {[L EXCEPT !.pc = "settle", !.outcome = o, !.result = c.query]}
    /\ LET s1 == afterSearch(session, o) IN
         /\ session' = s1
         /\ IF o = "ok" /\ preWarmDue(s1)
            THEN /\ preWarmingInProgress' = TRUE
                 /\ uuid' = uuid + 1
                 /\ calls' = (calls \ {c}) \cup {ping(randomUUID)}
            ELSE /\ calls' = calls \ {c}
                 /\ UNCHANGED <<preWarmingInProgress, uuid>>
    /\ searched' = IF o = "ok" THEN [searched EXCEPT ![c.sessionId] = @ + 1] ELSE searched
    /\ UNCHANGED <<maxSessionSearches, model, warmUpLog, nextSession, warmupComplete, queue, processing,
                   warmups, cleaned, cleanups, submitted, taskLimit, idLimit, warmUpsLeft, resetsLeft,
                   rejected, invoked, settledCount, lastSettled>>

\* processQueue resumes after `await task.execute()`: settle the caller's
\* promise, then take the next task or leave the loop.
LoopContinue(L) ==
    /\ L.pc = "settle"
    /\ FreshOK(drainContinues(L.outcome, queue)
                /\ prepareSession(session, nextSession, randomUUID).fresh)
    /\ settledCount' = settledCount + 1
    /\ lastSettled' = [task |-> L.task, outcome |-> L.outcome, result |-> L.result]
    /\ IF drainContinues(L.outcome, queue)
       THEN /\ runNext(queue, loops \ {L})
            /\ UNCHANGED processing
       ELSE /\ processing' = FALSE
            /\ loops' = loops \ {L}
            /\ UNCHANGED <<queue, session, nextSession, uuid, cleaned, cleanups, calls, invoked>>
    /\ UNCHANGED <<maxSessionSearches, model, warmUpLog, preWarmingInProgress, warmupComplete, warmups,
                   submitted, taskLimit, idLimit, warmUpsLeft, resetsLeft, rejected, searched>>

\* a catch handler that starts another ping at once
PreWarmReturnsRetrying(c, o) ==
    /\ c.kind = "prewarm"
    /\ FreshOK(o # "ok")
    /\ calls' = IF o = "ok" THEN calls \ {c} ELSE (calls \ {c}) \cup {ping(randomUUID)}
    /\ uuid' = IF o = "ok" THEN uuid ELSE uuid + 1
    /\ preWarmingInProgress' = (o # "ok")
    /\ nextSession' = IF o = "ok"
                      THEN <<[sessionId |-> c.sessionId, searchCount |-> 1]>>
                      ELSE nextSession
    /\ UNCHANGED <<maxSessionSearches, model, warmUpLog, session, warmupComplete, queue, processing,
                   loops, warmups, cleaned, cleanups, submitted, taskLimit, idLimit, warmUpsLeft,
                   resetsLeft, rejected, invoked, searched, settledCount, lastSettled>>

\* a catch handler that leaves the in-flight flag set
PreWarmReturnsKeepingFlag(c, o) ==
    /\ c.kind = "prewarm"
    /\ calls' = calls \ {c}
    /\ preWarmingInProgress' = (o # "ok")
    /\ nextSession' = IF o = "ok"
                      THEN <<[sessionId |-> c.sessionId, searchCount |-> 1]>>
                      ELSE nextSession
    /\ UNCHANGED <<maxSessionSearches, model, warmUpLog, session, warmupComplete, queue, processing,
                   loops, warmups, uuid, cleaned, cleanups, submitted, taskLimit, idLimit, warmUpsLeft,
                   resetsLeft, rejected, invoked, searched, settledCount, lastSettled>>

\* The background ping of maybePreWarmNextSession returns: its then / catch.
PreWarmReturns(c, o) ==
    /\ c.kind = "prewarm"
    /\ calls' = calls \ {c}
    /\ preWarmingInProgress' = FALSE
    /\ nextSession' = IF o = "ok"
                      THEN <<[sessionId |-> c.sessionId, searchCount |-> 1]>>
                      ELSE nextSession
    /\ UNCHANGED <<maxSessionSearches, model, warmUpLog, session, warmupComplete, queue, processing,
                   loops, warmups, uuid, cleaned, cleanups, submitted, taskLimit, idLimit, warmUpsLeft,
                   resetsLeft, rejected, invoked, searched, settledCount, lastSettled>>

\* The cleanup() of a retired id ends: every rm and readdir has returned, or
\* something threw and the catch logged it.
CleanupEnds(id, how) ==
    /\ cleanups[id] = "running"
    /\ cleanups' = [cleanups EXCEPT ![id] = how]
    /\ UNCHANGED <<maxSessionSearches, model, session, nextSession, preWarmingInProgress,
                   warmupComplete, queue, processing, loops, calls, warmups, warmUpLog,
                   uuid, cleaned, submitted, taskLimit, idLimit, warmUpsLeft, resetsLeft,
                   rejected, invoked, searched, settledCount, lastSettled>>

\* ---- warmUp and reset --------------------------------------------------

warmPing(id) == [kind |-> "warmup", sessionId |-> id, isFirstSearch |-> TRUE, query |-> 0]

\* a guard that never sees a completed warm-up
neverWarm == FALSE

\* the guard of warmUp: a completed warm-up is not repeated
alreadyWarm == warmupComplete

\* a loop without its bound
retryAlways(attempt, o) == TRUE

\* the for loop of warmUp after a failed attempt: attempt++ and the test
\* attempt < maxRetries. The `continue` in the catch block is the last
\* statement of the loop body, so the message of the error decides nothing.
retryDue(attempt, o) == attempt + 1 < maxRetries

\* keeping the session of the failed attempt
keepSession(s) == s

\* the catch block of warmUp: the session is unset
giveUp(s) == NullSession

\* a warmUp that lets the error of its last attempt out
warmUpRethrows(o) == IF o = "ok" THEN "resolved" ELSE "rejected"

\* how the promise of warmUp settles when it ends after an attempt with
\* outcome o: the catch block swallows the error
warmUpSettles(o) == "resolved"

endWarmUp(log, how, settlement) ==
    [log EXCEPT ![settlement] = @ + 1, !.last = how]

\* warmUp(): return at once when already complete, else the first attempt
WarmUp ==
    /\ warmUpsLeft > 0
    /\ FreshOK(~ alreadyWarm)
    /\ warmUpsLeft' = warmUpsLeft - 1
    /\ IF alreadyWarm
       THEN /\ warmUpLog' = endWarmUp(warmUpLog, "skipped", "resolved")
            /\ UNCHANGED <<session, uuid, calls, warmups>>
       ELSE /\ session' = initializeSession(randomUUID)
            /\ uuid' = uuid + 1
            /\ calls' = calls \cup {warmPing(randomUUID)}
            /\ warmups' = warmups \cup
                   {[attempt |-> 0, sessionId |-> randomUUID,
                     lastError |-> "none", tried |-> {}]}
            /\ UNCHANGED warmUpLog
    /\ UNCHANGED <<maxSessionSearches, model, nextSession, preWarmingInProgress,
                   warmupComplete, queue, processing, loops, cleaned, cleanups, submitted,
                   taskLimit, idLimit, resetsLeft, rejected, invoked, searched,
                   settledCount, lastSettled>>

\* The ping of warmUp attempt w returns with outcome o: count the ping and
\* complete, or unset the session and retry or end.
WarmUpReturns(c, o) ==
    /\ c.kind = "warmup"
    /\ \E w \in warmups :
         /\ w.sessionId = c.sessionId
         /\ FreshOK(o # "ok" /\ retryDue(w.attempt, o))
         /\ IF o = "ok"
            THEN /\ session' = [session EXCEPT !.searchCount = @ + 1]
                 /\ warmupComplete' = TRUE
                 /\ warmups' = warmups \ {w}
                 /\ calls' = calls \ {c}
                 /\ warmUpLog' = endWarmUp(warmUpLog, "complete", warmUpSettles(o))
                 /\ UNCHANGED uuid
            ELSE IF retryDue(w.attempt, o)
            THEN /\ session' = initializeSession(randomUUID)
                 /\ uuid' = uuid + 1
                 /\ calls' = (calls \ {c}) \cup {warmPing(randomUUID)}
                 /\ warmups' = (warmups \ {w}) \cup
                        {[attempt |-> w.attempt + 1, sessionId |-> randomUUID,
                          lastError |-> o, tried |-> w.tried \cup {w.sessionId}]}
                 /\ UNCHANGED <<warmupComplete, warmUpLog>>
            ELSE /\ session' = giveUp(session)
                 /\ warmups' = warmups \ {w}
                 /\ calls' = calls \ {c}
                 /\ warmUpLog' = endWarmUp(warmUpLog, "gave up", warmUpSettles(o))
                 /\ UNCHANGED <<uuid, warmupComplete>>
    /\ UNCHANGED <<maxSessionSearches, model, nextSession, preWarmingInProgress, queue,
                   processing, loops, cleaned, cleanups, submitted, taskLimit, idLimit,
                   warmUpsLeft, resetsLeft, rejected, invoked, searched, settledCount,
                   lastSettled>>

\* a reset that leaves the queue and the drain flag alone
ResetKeepingQueue ==
    /\ resetsLeft > 0
    /\ resetsLeft' = resetsLeft - 1
    /\ session' = NullSession
    /\ nextSession' = <<>>
    /\ preWarmingInProgress' = FALSE
    /\ warmupComplete' = FALSE
    /\ UNCHANGED <<maxSessionSearches, model, warmUpLog, loops, calls, warmups, uuid, cleaned, cleanups, submitted,
                   taskLimit, idLimit, warmUpsLeft, rejected, invoked, searched, settledCount,
                   lastSettled, queue, processing>>

\* reset(): every field back to its initial value; nothing in flight is stopped
Reset ==
    /\ resetsLeft > 0
    /\ resetsLeft' = resetsLeft - 1
    /\ session' = NullSession
    /\ nextSession' = <<>>
    /\ preWarmingInProgress' = FALSE
    /\ warmupComplete' = FALSE
    /\ queue' = <<>>
    /\ processing' = FALSE
    /\ UNCHANGED <<maxSessionSearches, model, warmUpLog, loops, calls, warmups, uuid, cleaned, cleanups, submitted,
                   taskLimit, idLimit, warmUpsLeft, rejected, invoked, searched, settledCount,
                   lastSettled>>

\* ---- executeClaude -----------------------------------------------------

\* the characters a model identifier is made of here: "a" stands for the
\* letters and digits, "-" for the three others the pattern allows (. _ -),
\* " " for every character it does not allow
ModelChars == {"a", "-", " "}

ModelNames == UNION {[1..n -> ModelChars] : n \in 0..MaxModelLen}

\* a pattern without its anchors: one allowed character is enough
unanchoredTest(m) == \E i \in 1..Len(m) : m[i] \in {"a", "-"}

\* MODEL_NAME_RE.test(model) for /^[a-zA-Z0-9._-]+$/
MODEL_NAME_RE(m) == Len(m) >= 1 /\ \A i \in 1..Len(m) : m[i] \in {"a", "-"}

\* an invocation before anything has happened
NotSpawned ==
    [spawned |-> FALSE, child |-> "none", timer |-> "none", forceKill |-> "none",
     stdin |-> "none", signals |-> {}, errored |-> FALSE,
     settled |-> FALSE, outcome |-> "none", deliveries |-> 0]

\* settling without the guard
settleUnguarded(p, o) ==
    [p EXCEPT !.settled = TRUE, !.outcome = o, !.deliveries = @ + 1]

\* settle(fn): the first call delivers, the later ones do nothing
settle(p, o) ==
    IF p.settled THEN p
    ELSE [p EXCEPT !.settled = TRUE, !.outcome = o, !.deliveries = @ + 1]

\* a kill that signals whatever the state of the process
killBlind(p, sig) == [p EXCEPT !.signals = @ \cup {sig}]

\* child.kill(sig): the signal reaches a process that has not exited
kill(p, sig) ==
    IF p.child = "running" THEN [p EXCEPT !.signals = @ \cup {sig}] ELSE p

clearTimeout(p) == IF p.timer = "armed" THEN [p EXCEPT !.timer = "cleared"] ELSE p

\* escalation without the first signal
killLater(p) == [p EXCEPT !.forceKill = "armed"]

\* killGracefully: SIGTERM now, SIGKILL after the grace period unless the
\* child exits first
killGracefully(p) == [kill(p, "SIGTERM") EXCEPT !.forceKill = "armed"]

\* child.stdin.write(query)
stdinWrite(p) == [p EXCEPT !.stdin = "written"]

\* a stream left open after the write
stdinLeftOpen(p) == p

\* child.stdin.end()
stdinEnd(p) == [p EXCEPT !.stdin = "closed"]

\* the synchronous part of executeClaude: validate, spawn, arm the timer,
\* write the query to stdin and close it, or give up when there is no stdin
executeClaude(m, stdinOK) ==
    IF ~ MODEL_NAME_RE(m)
    THEN [NotSpawned EXCEPT !.settled = TRUE, !.outcome = "validation",
                            !.deliveries = 1]
    ELSE LET p == [NotSpawned EXCEPT !.spawned = TRUE, !.child = "running",
                                     !.timer = "armed"]
         IN  IF stdinOK
             THEN stdinEnd(stdinWrite([p EXCEPT !.stdin = "open"]))
             ELSE settle(kill(clearTimeout(p), "SIGTERM"), "stdin unavailable")

\* ---- the close handler -------------------------------------------------

\* code === null: the process was ended by a signal
NullCode == -1

\* what JSON.parse finds in a field of the output: nothing, a boolean, or a
\* string (written in quotes)
typeof(v) ==
    IF v = "undefined" THEN "undefined"
    ELSE IF v \in {"true", "false"} THEN "boolean"
    ELSE "string"

\* stdout of the process: no text, blank text, text that is not JSON, the
\* JSON literal null, or a JSON object with these three fields
NoObject == [type |-> "undefined", is_error |-> "undefined", result |-> "undefined"]
Stdouts ==
    {[text |-> t, json |-> NoObject] : t \in {"", " ", "garbage", "null"}}
    \cup {[text |-> "object", json |-> j] :
              j \in [type : {"undefined", "'result'"},
                     is_error : {"undefined", "true", "false", "'false'"},
                     result : {"undefined", "'a'", "'b'"}]}

\* a 'close' event: code and signal as Node reports them (code is null
\* exactly when a signal ended the process) and what the streams collected
CloseEvents ==
    {e \in [code : {NullCode} \cup 0..MaxExitCode,
            signal : {"none", "SIGTERM", "SIGKILL"},
            stdout : Stdouts,
            stderr : {"", "detail"}] :
        e.code = NullCode <=> e.signal # "none"}

Threw(msg) == [threw |-> TRUE, error |-> msg, value |-> NoObject]

\* a parser that does not look at the type of is_error
parseLenient(out) ==
    IF out.text \in {"", " "} THEN Threw("Empty output from Claude CLI")
    ELSE IF out.text = "garbage" THEN Threw("Invalid JSON")
    ELSE IF out.text = "null" THEN Threw("TypeError")
    ELSE IF typeof(out.json.type) # "string" THEN Threw("Missing type field")
    ELSE IF typeof(out.json.result) # "string" THEN Threw("Missing result field")
    ELSE [threw |-> FALSE, error |-> "", value |-> out.json]

\* parseClaudeOutput: trim, JSON.parse, the three typeof tests
parseClaudeOutput(out) ==
    IF out.text \in {"", " "} THEN Threw("Empty output from Claude CLI")
    ELSE IF out.text = "garbage" THEN Threw("Invalid JSON")
    ELSE IF out.text = "null" THEN Threw("TypeError")
    ELSE IF typeof(out.json.type) # "string" THEN Threw("Missing type field")
    ELSE IF typeof(out.json.is_error) # "boolean" THEN Threw("Missing is_error field")
    ELSE IF typeof(out.json.result) # "string" THEN Threw("Missing result field")
    ELSE [threw |-> FALSE, error |-> "", value |-> out.json]

Rejects(category, msg) ==
    [outcome |-> category, kind |-> "reject", message |-> msg, value |-> NoObject]

\* a handler that passes the diagnostic stream on to the caller
closeHandlerLeaky(e) ==
    IF e.code # 0 /\ e.code # NullCode
    THEN Rejects("cli error", e.stderr)
    ELSE IF e.signal # "none"
    THEN Rejects("terminated", "Claude CLI was terminated")
    ELSE LET result == parseClaudeOutput(e.stdout) IN
         IF result.threw
         THEN Rejects("parse failure", "Failed to parse Claude response")
         ELSE IF result.value.is_error = "true"
         THEN Rejects("search failed", "Claude search failed")
         ELSE [outcome |-> "ok", kind |-> "resolve", message |-> "",
               value |-> result.value]

\* the 'close' handler of executeClaude up to its settle call: what it
\* settles the promise with
closeHandler(e) ==
    IF e.code # 0 /\ e.code # NullCode
    THEN Rejects("cli error", "Claude CLI returned an error")
    ELSE IF e.signal # "none"
    THEN Rejects("terminated", "Claude CLI was terminated")
    ELSE LET result == parseClaudeOutput(e.stdout) IN
         IF result.threw
         THEN Rejects("parse failure", "Failed to parse Claude response")
         ELSE IF result.value.is_error = "true"
         THEN Rejects("search failed", "Claude search failed")
         ELSE [outcome |-> "ok", kind |-> "resolve", message |-> "",
               value |-> result.value]

\* no 'close' event looked at
NoCloseRun == [events |-> <<>>, results |-> <<>>]

\* the handler runs on each of the two events
HandleClose ==
    /\ closeRun.events # <<>>
    /\ closeRun.results = <<>>
    /\ closeRun' = [closeRun EXCEPT !.results =
                        <<closeHandler(closeRun.events[1]),
                          closeHandler(closeRun.events[2])>>]
    /\ UNCHANGED <<proc, maxSessionSearches, model, session, nextSession,
                   preWarmingInProgress, warmupComplete, queue, processing, loops,
                   calls, warmups, warmUpLog, uuid, cleaned, cleanups, submitted, taskLimit,
                   idLimit, warmUpsLeft, resetsLeft, rejected, invoked, searched,
                   settledCount, lastSettled>>

\* what the close handler settles with: exit code, signal and parsed output
CloseOutcomes == {closeHandler(e).outcome : e \in CloseEvents}

\* everything but the invocations
managerSide ==
    <<maxSessionSearches, model, session, nextSession, preWarmingInProgress,
      warmupComplete, queue, processing, loops, calls, warmups, warmUpLog, uuid,
      cleaned, cleanups, submitted, taskLimit, idLimit, warmUpsLeft, resetsLeft, rejected, invoked,
      searched, settledCount, lastSettled, closeRun>>

\* the executor calls made in this step run executeClaude up to its return
StartCalls ==
    \E stdinOK \in BOOLEAN :
        proc' = [c \in DOMAIN proc \cup (calls' \ calls) |->
                    IF c \in DOMAIN proc THEN proc[c]
                    ELSE executeClaude(model, stdinOK)]

\* the timeout callback of invocation c
TimeoutFires(c) ==
    /\ proc[c].timer = "armed"
    /\ proc' = [proc EXCEPT ![c] =
                   settle(killGracefully([@ EXCEPT !.timer = "fired"]), "timeout")]
    /\ UNCHANGED managerSide

\* the forceKill callback of killGracefully
ForceKillFires(c) ==
    /\ proc[c].forceKill = "armed"
    /\ proc' = [proc EXCEPT ![c] = [kill(@, "SIGKILL") EXCEPT !.forceKill = "fired"]]
    /\ UNCHANGED managerSide

\* the child's 'exit' event: the listener of killGracefully clears forceKill
ChildExit(c) ==
    /\ proc[c].child = "running"
    /\ proc' = [proc EXCEPT ![c] =
                   [@ EXCEPT !.child = "exited",
                             !.forceKill = IF @ = "armed" THEN "cleared" ELSE @]]
    /\ UNCHANGED managerSide

\* the child's 'close' event with what its code, signal and output amount to:
\* it follows 'exit', or 'error' when the process could not be spawned
ChildClose(c, r) ==
    /\ proc[c].child = "exited" \/ (proc[c].child = "running" /\ proc[c].errored)
    /\ proc' = [proc EXCEPT ![c] = settle(clearTimeout([@ EXCEPT !.child = "closed"]), r)]
    /\ UNCHANGED managerSide

\* the child's 'error' event
ChildError(c) ==
    /\ proc[c].spawned
    /\ ~ proc[c].errored
    /\ proc' = [proc EXCEPT ![c] =
                   settle(clearTimeout([@ EXCEPT !.errored = TRUE]), "spawn error")]
    /\ UNCHANGED managerSide

\* the promise of invocation c has settled: executeSearch resumes with it
SearchSettles(c) ==
    /\ c \in DOMAIN proc
    /\ proc[c].settled
    /\ SearchReturns(c, proc[c].outcome)
    /\ StartCalls
    /\ UNCHANGED closeRun

\* ---- specifications ----------------------------------------------------

Constructed ==
    /\ session = NullSession
    /\ nextSession = <<>>
    /\ preWarmingInProgress = FALSE
    /\ warmupComplete = FALSE
    /\ queue = <<>>
    /\ processing = FALSE
    /\ loops = {}
    /\ calls = {}
    /\ warmups = {}
    /\ warmUpLog = [resolved |-> 0, rejected |-> 0, last |-> "none"]
    /\ uuid = 0
    /\ cleaned = {}
    /\ cleanups = << >>
    /\ submitted = 0
    /\ rejected = 0
    /\ invoked = 0
    /\ searched = [i \in 1..idLimit |-> 0]
    /\ settledCount = 0
    /\ lastSettled = [task |-> 0, outcome |-> "none", result |-> 0]
    /\ proc = << >>

\* any sequence of execute, warmUp and reset calls
Init ==
    /\ maxSessionSearches \in 1..MaxSearches
    /\ model = DefaultModel
    /\ taskLimit = MaxTasks
    /\ idLimit = MaxIds
    /\ warmUpsLeft = MaxWarmUps
    /\ resetsLeft = MaxResets
    /\ closeRun = NoCloseRun
    /\ Constructed

\* the executor is the one injected into the constructor: a call returns
\* any outcome, and no executeClaude invocation is modelled
Next ==
    \/ Execute /\ UNCHANGED <<proc, closeRun>>
    \/ \E c \in calls, o \in Outcomes : SearchReturns(c, o) /\ UNCHANGED <<proc, closeRun>>
    \/ \E L \in loops : LoopContinue(L) /\ UNCHANGED <<proc, closeRun>>
    \/ \E c \in calls, o \in Outcomes : PreWarmReturns(c, o) /\ UNCHANGED <<proc, closeRun>>
    \/ WarmUp /\ UNCHANGED <<proc, closeRun>>
    \/ \E c \in calls, o \in Outcomes : WarmUpReturns(c, o) /\ UNCHANGED <<proc, closeRun>>
    \/ Reset /\ UNCHANGED <<proc, closeRun>>

Spec == Init /\ [][Next]_vars

\* warmUp calls with room for all their attempts, and execute calls
InitWarmUp ==
    /\ maxSessionSearches \in 1..MaxSearchesWarmUp
    /\ model = DefaultModel
    /\ taskLimit = MaxTasksWarmUp
    /\ idLimit = MaxIdsWarmUp
    /\ warmUpsLeft = MaxWarmUpsWarmUp
    /\ resetsLeft = 0
    /\ closeRun = NoCloseRun
    /\ Constructed

NextWarmUp ==
    \/ Execute /\ UNCHANGED <<proc, closeRun>>
    \/ \E c \in calls, o \in Outcomes : SearchReturns(c, o) /\ UNCHANGED <<proc, closeRun>>
    \/ \E L \in loops : LoopContinue(L) /\ UNCHANGED <<proc, closeRun>>
    \/ \E c \in calls, o \in Outcomes : PreWarmReturns(c, o) /\ UNCHANGED <<proc, closeRun>>
    \/ WarmUp /\ UNCHANGED <<proc, closeRun>>
    \/ \E c \in calls, o \in Outcomes : WarmUpReturns(c, o) /\ UNCHANGED <<proc, closeRun>>

SpecWarmUp == InitWarmUp /\ [][NextWarmUp]_vars

\* execute calls only, enough of them to fill the queue
InitExecute ==
    /\ maxSessionSearches \in 1..MaxSearchesExecute
    /\ model = DefaultModel
    /\ taskLimit = MAX_QUEUE_SIZE + QueueSlack
    /\ idLimit = MaxIdsExecute
    /\ warmUpsLeft = 0
    /\ resetsLeft = 0
    /\ closeRun = NoCloseRun
    /\ Constructed

NextExecute ==
    \/ Execute /\ UNCHANGED <<proc, closeRun>>
    \/ \E c \in calls, o \in Outcomes : SearchReturns(c, o) /\ UNCHANGED <<proc, closeRun>>
    \/ \E L \in loops : LoopContinue(L) /\ UNCHANGED <<proc, closeRun>>
    \/ \E c \in calls, o \in Outcomes : PreWarmReturns(c, o) /\ UNCHANGED <<proc, closeRun>>

SpecExecute == InitExecute /\ [][NextExecute]_vars

\* execute calls with limits on both sides of the pre-warm threshold, and a
\* warmUp call
InitPreWarm ==
    /\ maxSessionSearches \in 1..MaxSearchesPreWarm
    /\ model = DefaultModel
    /\ taskLimit = MaxTasksPreWarm
    /\ idLimit = MaxIdsPreWarm
    /\ warmUpsLeft = MaxWarmUpsPreWarm
    /\ resetsLeft = 0
    /\ closeRun = NoCloseRun
    /\ Constructed

SpecPreWarm == InitPreWarm /\ [][NextWarmUp]_vars

\* execute calls that rotate, and the cleanups of the retired sessions
InitCleanup ==
    /\ maxSessionSearches \in 1..MaxSearchesCleanup
    /\ model = DefaultModel
    /\ taskLimit = MaxTasksCleanup
    /\ idLimit = MaxIdsCleanup
    /\ warmUpsLeft = 0
    /\ resetsLeft = 0
    /\ closeRun = NoCloseRun
    /\ Constructed

NextCleanup ==
    \/ Execute /\ UNCHANGED <<proc, closeRun>>
    \/ \E c \in calls, o \in Outcomes : SearchReturns(c, o) /\ UNCHANGED <<proc, closeRun>>
    \/ \E L \in loops : LoopContinue(L) /\ UNCHANGED <<proc, closeRun>>
    \/ \E c \in calls, o \in Outcomes : PreWarmReturns(c, o) /\ UNCHANGED <<proc, closeRun>>
    \/ \E id \in DOMAIN cleanups, how \in {"done", "failed"} :
          CleanupEnds(id, how) /\ UNCHANGED <<proc, closeRun>>

SpecCleanup == InitCleanup /\ [][NextCleanup]_vars

\* two processes close, each with any code, signal and output
InitClose ==
    /\ maxSessionSearches = 1
    /\ model = DefaultModel
    /\ taskLimit = 0
    /\ idLimit = 1
    /\ warmUpsLeft = 0
    /\ resetsLeft = 0
    /\ closeRun \in [events : CloseEvents \X CloseEvents, results : {<<>>}]
    /\ Constructed

SpecClose == InitClose /\ [][HandleClose]_vars

\* execute calls on a manager whose executor is executeClaude; the limit is
\* far enough for no pre-warm ping to start
InitClaude ==
    /\ maxSessionSearches = MaxTasksClaude + 3
    /\ model \in ModelNames
    /\ taskLimit = MaxTasksClaude
    /\ idLimit = 1
    /\ warmUpsLeft = 0
    /\ resetsLeft = 0
    /\ closeRun = NoCloseRun
    /\ Constructed

NextClaude ==
    \/ Execute /\ StartCalls /\ UNCHANGED closeRun
    \/ \E c \in calls : SearchSettles(c)
    \/ \E L \in loops : LoopContinue(L) /\ StartCalls /\ UNCHANGED closeRun
    \/ \E c \in DOMAIN proc : TimeoutFires(c)
    \/ \E c \in DOMAIN proc : ForceKillFires(c)
    \/ \E c \in DOMAIN proc : ChildExit(c)
    \/ \E c \in DOMAIN proc, r \in CloseOutcomes : ChildClose(c, r)
    \/ \E c \in DOMAIN proc : ChildError(c)

SpecClaude == InitClaude /\ [][NextClaude]_vars

\* execute and reset calls, with ids enough for a ping that outlives a reset
InitReset ==
    /\ maxSessionSearches \in 1..MaxSearchesReset
    /\ model = DefaultModel
    /\ taskLimit = MaxTasksReset
    /\ idLimit = MaxIdsReset
    /\ warmUpsLeft = 0
    /\ resetsLeft = MaxResetsReset
    /\ closeRun = NoCloseRun
    /\ Constructed

NextReset ==
    \/ Execute /\ UNCHANGED <<proc, closeRun>>
    \/ \E c \in calls, o \in Outcomes : SearchReturns(c, o) /\ UNCHANGED <<proc, closeRun>>
    \/ \E L \in loops : LoopContinue(L) /\ UNCHANGED <<proc, closeRun>>
    \/ \E c \in calls, o \in Outcomes : PreWarmReturns(c, o) /\ UNCHANGED <<proc, closeRun>>
    \/ Reset /\ UNCHANGED <<proc, closeRun>>

SpecReset == InitReset /\ [][NextReset]_vars

\* one execute call after another on a manager whose executor is
\* executeClaude, with a model identifier that passes validation
InitSpawn ==
    /\ maxSessionSearches = MaxTasksSpawn + 3
    /\ model = DefaultModel
    /\ taskLimit = MaxTasksSpawn
    /\ idLimit = 1
    /\ warmUpsLeft = 0
    /\ resetsLeft = 0
    /\ closeRun = NoCloseRun
    /\ Constructed

SpecSpawn == InitSpawn /\ [][NextClaude]_vars

\* timers fire
FairClaude == WF_vars(\E c \in DOMAIN proc : TimeoutFires(c))

SpecClaudeFair == SpecClaude /\ FairClaude

TypeOK ==
    /\ maxSessionSearches >= 1
    /\ session.sessionId \in 0..idLimit
    /\ session.searchCount \in Nat
    /\ Len(nextSession) <= 1
    /\ uuid \in 0..idLimit

\* ---- properties --------------------------------------------------------

SearchCalls == {c \in calls : c.kind = "search"}

\* the accepted tasks whose promise has not settled: waiting or being executed
Waiting == {queue[i] : i \in 1..Len(queue)}
Pending == Waiting \cup {L.task : L \in loops}

\* C1: in every reachable state at most one executor call is in flight,
\* whether a queued search, the pre-warm ping or the warmUp ping started it.
C1_SingleFlight == Cardinality(calls) <= 1

\* C2: the executor is invoked for the accepted queries in the order they
\* were submitted (each invoked query is newer than every query invoked
\* before it and older than every query still waiting), and each promise
\* settles with the outcome of the executor call made for its own query.
C2_FifoOrder ==
    /\ [][invoked' # invoked =>
            /\ invoked' > invoked
            /\ \A i \in 1..Len(queue') : queue'[i] > invoked']_vars
    /\ [](lastSettled.result = lastSettled.task)

\* three queries were waiting or running together and all three have settled
C2_Witness ==
    /\ settledCount = 3
    /\ lastSettled.task = 3
    /\ resetsLeft = MaxResets

\* C3: in every reachable state searchCount of the current session is at
\* most maxSessionSearches, for every maxSessionSearches >= 1.
C3_CountWithinLimit == session.searchCount <= maxSessionSearches

Failed(L) == L.pc = "settle" /\ L.outcome \in Failures

\* the step in which loop L resumes after its await: it settles its promise
Settles(L) == L.pc = "settle" /\ L \notin loops'

\* C5: with MAX_QUEUE_SIZE tasks waiting, execute rejects at once and enqueues
\* nothing; the rejected call changes neither the queue, the session nor
\* what is in flight, and every task accepted before is still waiting,
\* running or settled.
C5_QueueFullRejects ==
    /\ [][Len(queue) = MAX_QUEUE_SIZE =>
            /\ submitted' = submitted
            /\ queue' \in {queue, Tail(queue)}]_vars
    /\ [][rejected' # rejected =>
            /\ Len(queue) = MAX_QUEUE_SIZE
            /\ UNCHANGED <<manager, loops, calls, warmups, uuid, cleaned, submitted,
                           invoked, searched, settledCount, lastSettled>>]_vars
    /\ [](submitted = settledCount + Cardinality(Pending))

\* an execute call was rejected and the tasks accepted before it have settled
C5_Witness ==
    /\ rejected = 1
    /\ settledCount > MAX_QUEUE_SIZE

\* C6: at most MAX_QUEUE_SIZE tasks are waiting; the task being executed has
\* left the queue and is not counted, so no call is rejected while fewer than
\* MAX_QUEUE_SIZE tasks are waiting.
C6_QueueBounded ==
    /\ [](/\ Len(queue) <= MAX_QUEUE_SIZE
          /\ \A L \in loops : L.task \notin Waiting)
    /\ [][Len(queue) < MAX_QUEUE_SIZE => rejected' = rejected]_vars

\* MAX_QUEUE_SIZE tasks waiting behind one that is being executed
C6_Witness ==
    /\ Len(queue) = MAX_QUEUE_SIZE
    /\ Cardinality(loops) = 1
    /\ submitted = MAX_QUEUE_SIZE + 1
    /\ rejected = 0

\* C7: when the executor call of a queued search fails, searchCount is what
\* it was when the executor was called, and the promise rejects with the
\* error of that call.
C7_FailureKeepsCount ==
    /\ [][\A L \in loops' \ loops : Failed(L) =>
            session'.searchCount = L.callCount]_vars
    /\ [][\A L \in loops : (Failed(L) /\ Settles(L)) =>
            lastSettled' = [task |-> L.task, outcome |-> L.outcome,
                            result |-> L.task]]_vars

\* C8 as stated: a failed search leaves the session id it found when it was
\* dequeued, if that was non-null, whatever searchCount was then.
C8_FailureKeepsSessionId ==
    \A L \in loops : (Failed(L) /\ L.startId # 0) => session.sessionId = L.startId

\* C8 as amended: the step in which an executor call fails changes nothing
\* of the session, and the call was issued on the session found at the
\* dequeue when searchCount was below the limit then, and on another one,
\* the found one retired, when searchCount had reached the limit.
C8_FailureKeepsCallSession ==
    /\ [][\A L \in loops' \ loops : Failed(L) =>
            UNCHANGED <<session, nextSession, cleaned, warmupComplete>>]_vars
    /\ [](\A L \in loops :
            /\ (L.startId # 0 /\ L.startCount < maxSessionSearches)
                   => L.sessionId = L.startId
            /\ (L.startId # 0 /\ L.startCount >= maxSessionSearches)
                   => (L.sessionId # L.startId /\ L.startId \in cleaned))

\* a search has failed on the session it found, and one after a rotation
C8_Witness ==
    \E L \in loops :
        /\ Failed(L)
        /\ L.startId # 0
        /\ L.startCount < maxSessionSearches
        /\ session.sessionId = L.startId
        /\ cleaned # {}

\* C9: after a task's executor call has failed the loop goes on: settling the
\* failed task takes the head of the queue and calls the executor for it, and
\* tasks never wait without a loop running.
C9_FailureDoesNotHaltQueue ==
    /\ [][\A L \in loops : (Failed(L) /\ Settles(L) /\ Len(queue) > 0) =>
            /\ queue' = Tail(queue)
            /\ invoked' = Head(queue)
            /\ \E L2 \in loops' : L2.task = Head(queue) /\ L2.pc = "exec"
            /\ \E c \in calls' \ calls : c.kind = "search" /\ c.query = Head(queue)]_vars
    /\ [](Len(queue) > 0 => loops # {})

\* a failed task is about to reject with two tasks waiting behind it
C9_Witness ==
    \E L \in loops : Failed(L) /\ Len(queue) = 2

\* C10: a search is never issued on a session id that already has
\* maxSessionSearches successful searches, nor on an id that a rotation retired.
C10_RotatesAfterMax ==
    [][\A c \in calls' \ calls : c.kind = "search" =>
          /\ searched[c.sessionId] < maxSessionSearches
          /\ c.sessionId \notin cleaned']_vars

\* a session has had maxSessionSearches successful searches and the next
\* search is in flight on another id
C10_Witness ==
    \E id \in DOMAIN searched :
        /\ searched[id] = maxSessionSearches
        /\ id \in cleaned
        /\ \E c \in SearchCalls : c.sessionId # id

\* the successful searches in the executor's call log
RECURSIVE SumSearched(_)
SumSearched(n) == IF n = 0 THEN 0 ELSE searched[n] + SumSearched(n - 1)

\* search call c is the k-th search and the k - 1 searches before it succeeded
AllSucceededBefore(c) ==
    /\ c.kind = "search"
    /\ SumSearched(idLimit) = c.query - 1

\* searches 1 to 3 of a run with maxSessionSearches = 3 in which every search
\* succeeds: one session, isFirstSearch true, false, false
FirstThreeOnOneSession(c) ==
    /\ c.query = 1 => c.isFirstSearch
    /\ c.query \in 2..3 =>
          /\ ~ c.isFirstSearch
          /\ searched[c.sessionId] = c.query - 1

C12_SingleOutcome ==
    /\ [](\A c \in DOMAIN proc :
            /\ proc[c].deliveries <= 1
            /\ proc[c].settled <=> proc[c].deliveries = 1)
    /\ [][\A c \in DOMAIN proc : proc[c].settled =>
            /\ proc'[c].settled
            /\ proc'[c].outcome = proc[c].outcome
            /\ proc'[c].deliveries = proc[c].deliveries
            /\ proc'[c] # proc[c] => UNCHANGED managerSide]_vars

\* the timeout settled the call, and the close and error events came after
C12_Witness ==
    \E c \in DOMAIN proc :
        /\ proc[c].outcome = "timeout"
        /\ proc[c].child = "closed"
        /\ proc[c].errored
        /\ proc[c].deliveries = 1

\* C13: an invocation that spawned its process settles in the end; while it
\* is unsettled its timer is armed, and the timer's expiry sends SIGTERM to
\* a process that is still running and rejects the call with the timeout
\* failure, whether or not the process ever exits.
C13_SpawnedSettles ==
    /\ <>[](\A c \in DOMAIN proc : proc[c].spawned => proc[c].settled)
    /\ [](\A c \in DOMAIN proc :
            (proc[c].spawned /\ ~ proc[c].settled) => proc[c].timer = "armed")
    /\ [](\A c \in DOMAIN proc :
            proc[c].timer = "armed" => ~ proc[c].settled /\ proc[c].child # "closed")
    /\ [][\A c \in DOMAIN proc :
            (proc[c].timer = "armed" /\ proc'[c].timer = "fired") =>
                /\ proc'[c].settled
                /\ proc'[c].outcome = "timeout"
                /\ proc[c].child = "running" => "SIGTERM" \in proc'[c].signals]_vars

\* a call rejected by its timeout whose process is still running after
\* SIGTERM and SIGKILL
C13_Witness ==
    \E c \in DOMAIN proc :
        /\ proc[c].outcome = "timeout"
        /\ proc[c].child = "running"
        /\ proc[c].signals = {"SIGTERM", "SIGKILL"}

\* a model identifier with a character outside the allow-list, or none at all
InvalidModel == model = << >> \/ \E i \in 1..Len(model) : model[i] = " "

\* C14: with a model identifier that does not match the pattern every
\* executor call rejects with the validation failure without a process, a
\* timer or a write to stdin, the request made through execute rejects with
\* it and searchCount stays what it was.
C14_InvalidModelRejected ==
    InvalidModel =>
        /\ \A c \in DOMAIN proc :
              proc[c] = [NotSpawned EXCEPT !.settled = TRUE,
                                           !.outcome = "validation",
                                           !.deliveries = 1]
        /\ \A L \in loops : L.pc = "settle" => L.outcome = "validation"
        /\ settledCount > 0 => lastSettled.outcome = "validation"
        /\ session.searchCount = 0

\* a request with an identifier that starts well and has a forbidden
\* character has been rejected
C14_Witness ==
    /\ Len(model) = 2
    /\ model[1] = "a"
    /\ model[2] = " "
    /\ settledCount = 1
    /\ lastSettled.outcome = "validation"

\* the executor calls in flight that warmUp invocation w has made
WarmUpCalls(w) == {c \in calls : c.kind = "warmup" /\ c.sessionId = w.sessionId}

\* C15: a warmUp call makes at most maxRetries = 3 executor calls, one at a
\* time, each on a freshly generated session id that none of its earlier
\* attempts used, and a further attempt only after the previous one failed.
C15_WarmUpAttempts ==
    /\ [](\A w \in warmups :
            /\ w.attempt < maxRetries
            /\ Cardinality(w.tried) = w.attempt
            /\ w.sessionId \notin w.tried
            /\ w.attempt > 0 => w.lastError \in Failures
            /\ Cardinality(WarmUpCalls(w)) = 1
            /\ \A c \in calls : c.kind = "warmup" => c.sessionId \notin w.tried)
    /\ [][\A c \in calls' \ calls : c.kind = "warmup" =>
            /\ c.sessionId = uuid'
            /\ uuid' = uuid + 1
            /\ c.isFirstSearch]_vars

\* a warmUp call is in its third attempt
C15_Witness ==
    \E w \in warmups : w.attempt = maxRetries - 1 /\ Cardinality(w.tried) = 2

\* C16: warmUp starts a further attempt only after an 'already in use'
\* failure; after any other failure it makes no further executor call.
C16_OtherErrorStops ==
    \A w \in warmups : w.attempt > 0 => w.lastError = "already in use"

\* C17: when warmUp ends without a successful attempt the session is unset
\* (no id, searchCount 0), and a search dequeued with the session unset
\* creates a fresh session and calls the executor with isFirstSearch = true.
C17_FailedWarmUpDefers ==
    /\ [][(warmUpLog' # warmUpLog /\ warmUpLog'.last = "gave up") =>
            session' = NullSession]_vars
    /\ [][\A c \in calls' \ calls : (c.kind = "search" /\ session = NullSession) =>
            /\ c.isFirstSearch
            /\ c.sessionId = uuid'
            /\ uuid' = uuid + 1
            /\ session' = initializeSession(c.sessionId)]_vars

\* warmUp has given up after its three attempts and the first search is in
\* flight on a fourth id
C17_Witness ==
    /\ warmUpLog.last = "gave up"
    /\ warmups = {}
    /\ \E c \in SearchCalls :
         /\ c.query = 1
         /\ c.isFirstSearch
         /\ c.sessionId = maxRetries + 1

\* one warmUp call has been made, it has completed, and nothing else has run
WarmedAlone ==
    /\ warmupComplete
    /\ warmups = {}
    /\ warmUpLog = [resolved |-> 1, rejected |-> 0, last |-> "complete"]
    /\ submitted = 0

C19_WarmUpIdempotent ==
    [][(warmupComplete /\ warmUpsLeft' < warmUpsLeft) =>
          /\ calls' = calls
          /\ UNCHANGED <<session, nextSession, warmups, uuid, warmupComplete>>
          /\ warmUpLog' = endWarmUp(warmUpLog, "skipped", "resolved")]_vars

\* a second warmUp call has returned at once after a completed warm-up
C19_Witness ==
    /\ warmUpLog.last = "skipped"
    /\ warmupComplete
    /\ session.searchCount >= 1

\* C20: no warmUp promise rejects; every warmUp call that is not waiting
\* for an attempt has resolved.
C20_WarmUpNeverRejects ==
    /\ warmUpLog.rejected = 0
    /\ warmUpLog.resolved + Cardinality(warmups) = MaxWarmUpsWarmUp - warmUpsLeft

\* a warmUp call has resolved after all its attempts failed
C20_Witness ==
    /\ warmUpLog.last = "gave up"
    /\ warmUpLog.resolved >= 1
    /\ warmups = {}

\* C21: a reset() step leaves the session id absent, searchCount 0, the
\* pending session absent, the queue empty and the processing,
\* pre-warm-in-progress and warm-up-complete flags false, and it removes no
\* executor call in flight and no continuation waiting for one.
C21_ResetClearsState ==
    [][resetsLeft' < resetsLeft =>
          /\ getSessionInfo'.sessionId = 0
          /\ getSessionInfo'.searchCount = 0
          /\ nextSession' = <<>>
          /\ queue' = <<>>
          /\ ~ processing'
          /\ ~ preWarmingInProgress'
          /\ ~ warmupComplete'
          /\ UNCHANGED <<calls, loops, warmups>>]_vars

\* a search that was in flight when reset() ran has returned and settled
\* its caller afterwards: its increment landed on the cleared session
C21_Witness ==
    /\ resetsLeft < MaxResets
    /\ warmUpsLeft = MaxWarmUps
    /\ settledCount >= 1
    /\ lastSettled.outcome = "ok"
    /\ session = [sessionId |-> 0, searchCount |-> 1]
    /\ calls = {}

\* C22: at most one drain loop is active at any time, whatever the sequence
\* of execute, warmUp and reset calls.
C22_SingleDrainLoop == Cardinality(loops) <= 1

\* a queued search is at the executor and no other query is between its
\* executor call and its settlement
OneAtATime ==
    /\ Cardinality(SearchCalls) <= 1
    /\ \A c \in SearchCalls : \A L \in loops : L.task = c.query /\ L.pc = "exec"

C24_OnlyLoopChangesSession ==
    [][(loops # {} /\ session' # session /\ resetsLeft' = resetsLeft)
          => loops' # loops]_vars

\* a step in which executeSearch rotates: a queued search starts on a
\* session that has reached the limit
Rotates == invoked' # invoked /\ shouldRotateSession(session)

\* the rotation installs the pending session and empties the slot
Consumes ==
    /\ Rotates
    /\ session' = nextSession[1]
    /\ session'.searchCount = 1
    /\ nextSession' = <<>>

\* a rotation does what rotateSession says for the slot it finds
RotatesAsFound ==
    Rotates =>
        IF nextSession # <<>>
        THEN Consumes
        ELSE /\ session' = [sessionId |-> uuid + 1, searchCount |-> 0]
             /\ uuid' = uuid + 1
             /\ nextSession' = <<>>

\* the pending session has never been the current one
PendingIsNew ==
    nextSession # <<>> =>
        /\ nextSession[1].sessionId # session.sessionId
        /\ nextSession[1].sessionId \notin cleaned

PreWarmCalls == {c \in calls : c.kind = "prewarm"}

\* a step that starts a pre-warm ping
PingStarted == \E c \in calls' \ calls : c.kind = "prewarm"

\* a step in which a queued search returns successfully
SearchSucceeds == \E L \in loops' \ loops : L.pc = "settle" /\ L.outcome = "ok"

PingReturns == PreWarmCalls' # PreWarmCalls /\ ~ PingStarted

PingsThisSession == uuid - session.sessionId

\* C28: a failed pre-warm is never retried before the next rotation. A ping
\* is started only with no ping in flight and the slot empty, so a second
\* ping within one session follows a failed first one: with execute calls
\* only, no session sees a second ping (and the rotation that ends it
\* finds the slot empty).
C28_NoSecondPing ==
    [][(warmUpsLeft = MaxWarmUpsPreWarm /\ PingStarted) => PingsThisSession = 0]_vars

\* C28 as the code has it: the failure of a ping starts nothing, and a later
\* ping, on another new id, is started by the next successful search that
\* finds the limit near, no ping in flight and the slot empty; a rotation is
\* cold exactly when it finds the slot empty.
C28_RetriedAfterNextSuccess ==
    [][/\ PingReturns => calls' \subseteq calls /\ uuid' = uuid
       /\ (PingStarted /\ PingsThisSession > 0) =>
            /\ SearchSucceeds
            /\ maxSessionSearches - session'.searchCount <= 2
            /\ PreWarmCalls = {} /\ nextSession = <<>>
            /\ PreWarmCalls' = {ping(uuid + 1)}
       /\ Rotates => (session'.searchCount = 0 <=> nextSession = <<>>)]_vars

\* the first ping of session 1 failed, a second one succeeded, and the
\* rotation was a warm one
C28_Witness ==
    /\ warmUpsLeft = MaxWarmUpsPreWarm
    /\ session = [sessionId |-> 3, searchCount |-> 1]
    /\ searched[3] = 0
    /\ cleaned = {1}
    /\ uuid = 3
    /\ nextSession = <<>>
    /\ PreWarmCalls = {}

\* the invocations whose process has exited
Exited == {c \in DOMAIN proc : proc[c].child = "exited"}

\* SIGKILL goes out only when the grace period ends on a process that has
\* not exited, and only after a timeout
KillOnlyIfRunning ==
    /\ [](\A c \in DOMAIN proc :
            "SIGKILL" \in proc[c].signals => proc[c].timer = "fired")
    /\ [][\A c \in DOMAIN proc :
            ("SIGKILL" \notin proc[c].signals /\ "SIGKILL" \in proc'[c].signals) =>
                /\ proc[c].child = "running"
                /\ proc[c].forceKill = "armed"
                /\ proc'[c].forceKill = "fired"]_vars

\* C29: after a timeout SIGKILL is sent only if the process has not exited
\* by the end of the grace period, and whenever the process has exited,
\* before or after the timeout fired, the scheduled SIGKILL is cancelled: no
\* exited process has the escalation timer pending.
C29_KillCancelledOnExit ==
    /\ KillOnlyIfRunning
    /\ [](\A c \in Exited : proc[c].forceKill # "armed")

\* C29 for the two orders: an exit after the timeout cancels the scheduled
\* SIGKILL; after an exit before the timeout the escalation timer is
\* scheduled all the same and runs out, and its kill sends nothing.
C29_KillCancelledOnLaterExit ==
    /\ KillOnlyIfRunning
    /\ [][\A c \in DOMAIN proc :
            /\ (proc[c].forceKill = "armed" /\ c \in Exited' \ Exited)
                  => proc'[c].forceKill = "cleared"
            /\ (proc[c].timer = "armed" /\ proc'[c].timer = "fired")
                  => proc'[c].forceKill = "armed"
            /\ (c \in Exited /\ proc[c].forceKill = "armed"
                  /\ proc'[c].forceKill # "armed")
                  => /\ proc'[c].forceKill = "fired"
                     /\ proc'[c].signals = proc[c].signals]_vars

\* the process exited before the timeout fired: the escalation timer ran out
\* on it and no signal was sent
C29_Witness ==
    \E c \in DOMAIN proc :
        /\ proc[c].child = "exited"
        /\ proc[c].outcome = "timeout"
        /\ proc[c].forceKill = "fired"
        /\ proc[c].signals = {}

\* C30: an invocation whose process has an input stream has written the
\* query and closed the stream in the step that spawns the process, before
\* any exit, close, error or timeout event of that process is handled; in no
\* state is a stream open or written and not closed, and only an invocation
\* without a stream gives up for want of one.
C30_StdinClosedAtSpawn ==
    /\ [](\A c \in DOMAIN proc :
            /\ proc[c].stdin \in {"none", "closed"}
            /\ proc[c].spawned =>
                  (proc[c].stdin = "none" <=> proc[c].outcome = "stdin unavailable"))
    /\ [][\A c \in DOMAIN proc' \ DOMAIN proc :
            (proc'[c].spawned /\ proc'[c].stdin # "none") =>
                /\ proc'[c].stdin = "closed"
                /\ proc'[c].child = "running"
                /\ proc'[c].timer = "armed"
                /\ proc'[c].forceKill = "none"
                /\ ~ proc'[c].errored
                /\ ~ proc'[c].settled
                /\ proc'[c].signals = {}]_vars

\* a process that got its query on a closed stream has answered and closed
C30_Witness ==
    \E c \in DOMAIN proc :
        /\ proc[c].stdin = "closed"
        /\ proc[c].child = "closed"
        /\ proc[c].outcome = "ok"
        /\ proc[c].timer = "cleared"

\* output that is empty, not parseable, or lacks a string type tag, a
\* boolean error flag or a string result
Unusable(out) ==
    \/ out.text # "object"
    \/ typeof(out.json.type) # "string"
    \/ typeof(out.json.is_error) # "boolean"
    \/ typeof(out.json.result) # "string"

\* C31: what the close handler settles with is a function of exit code,
\* signal and output: a non-zero exit code gives the process failure;
\* otherwise a signal gives the terminated failure; otherwise unusable
\* output gives the parse failure; otherwise an error flag of true gives the
\* logical failure; otherwise the call resolves with the parsed record.
C31_CloseOutcome ==
    closeRun.results # <<>> =>
        \A i \in 1..2 :
            LET e == closeRun.events[i]
                r == closeRun.results[i]
            IN  IF e.code \notin {0, NullCode}
                THEN r.kind = "reject" /\ r.outcome = "cli error"
                ELSE IF e.signal # "none"
                THEN r.kind = "reject" /\ r.outcome = "terminated"
                ELSE IF Unusable(e.stdout)
                THEN r.kind = "reject" /\ r.outcome = "parse failure"
                ELSE IF e.stdout.json.is_error = "true"
                THEN r.kind = "reject" /\ r.outcome = "search failed"
                ELSE /\ r.kind = "resolve"
                     /\ r.outcome = "ok"
                     /\ r.value = e.stdout.json

\* one process exited cleanly with a good record and resolved, the other
\* exited cleanly with a record whose error flag is a string
C31_Witness ==
    /\ closeRun.results # <<>>
    /\ closeRun.events[1].code = 0
    /\ closeRun.results[1].kind = "resolve"
    /\ closeRun.results[1].value.result = "'a'"
    /\ closeRun.events[2].code = 0
    /\ closeRun.events[2].stdout.json.is_error = "'false'"
    /\ closeRun.results[2].outcome = "parse failure"

\* the categories whose detail stays in the log
Sanitised == {"cli error", "parse failure", "search failed"}

\* C33: for process, parse and logical failures the caller gets a fixed
\* message per category: two invocations that fail in the same category,
\* whatever their diagnostic and output streams hold and whatever the
\* non-zero exit code is, deliver identical errors.
C33_FixedMessages ==
    (/\ closeRun.results # <<>>
     /\ closeRun.results[1].outcome \in Sanitised
     /\ closeRun.results[1].outcome = closeRun.results[2].outcome)
        => closeRun.results[1] = closeRun.results[2]

\* two processes failed with different exit codes and different diagnostic
\* output, and their callers got the same error
C33_Witness ==
    /\ closeRun.results # <<>>
    /\ closeRun.events[1].code = 1
    /\ closeRun.events[2].code = 2
    /\ closeRun.events[1].stderr # closeRun.events[2].stderr
    /\ closeRun.events[1].stdout # closeRun.events[2].stdout
    /\ closeRun.results[1].message = "Claude CLI returned an error"
    /\ closeRun.results[2].message = "Claude CLI returned an error"

\* a step of a cleanup that was started earlier
CleanupStep == \E id \in DOMAIN cleanups : cleanups'[id] # cleanups[id]

\* C32: a rotation away from a session id hands that id, and no other, to
\* cleanup, which has not had it before, and starts the executor call of the
\* task in the same step, the cleanup still running; ids reach cleanup in no
\* other step; a step of a cleanup, ending well or failing, changes nothing
\* of the manager, rejects no request, and leaves the drain loop able to go
\* on.
C32_CleanupDetached ==
    [][/\ (Rotates /\ session.sessionId # 0) =>
            /\ session.sessionId \notin DOMAIN cleanups
            /\ DOMAIN cleanups' = DOMAIN cleanups \cup {session.sessionId}
            /\ cleanups'[session.sessionId] = "running"
            /\ \E c \in calls' \ calls :
                  c.kind = "search" /\ c.sessionId = session'.sessionId
       /\ DOMAIN cleanups' # DOMAIN cleanups => Rotates
       /\ CleanupStep =>
            UNCHANGED <<session, nextSession, preWarmingInProgress, queue,
                        processing, loops, calls, rejected, settledCount,
                        lastSettled, uuid>>
       /\ \A L \in loops :
            (L.pc = "settle" /\ uuid < idLimit /\ cleanups # << >>)
               => ENABLED LoopContinue(L)]_vars

\* the cleanup of session 1 failed while the task that rotated away from it
\* was at the executor, and that task then resolved
C32_Witness ==
    /\ 1 \in DOMAIN cleanups
    /\ cleanups[1] = "failed"
    /\ session.sessionId # 1
    /\ lastSettled.outcome = "ok"
    /\ lastSettled.task >= 2
    /\ rejected = 0

\* C34: a session is never resumed before it has been established: an
\* executor call with isFirstSearch = false is made only on a session id on
\* which a call has already completed successfully, so never on an id whose
\* only ping is still in flight and on which no search has succeeded, in any
\* interleaving of execute, warmUp, pre-warm completion and reset.
C34_ResumeAfterEstablished ==
    \A c \in calls : \A d \in calls :
        (c.sessionId = d.sessionId /\ ~ c.isFirstSearch /\ d.kind # "search")
            => searched[c.sessionId] > 0

\* the processes that have been spawned and have not exited
Alive == {c \in DOMAIN proc : proc[c].spawned /\ proc[c].child = "running" /\ ~ proc[c].errored}

\* C35: when the process of the next invocation is spawned, no process of an
\* earlier invocation is still alive: at most one spawned process is running
\* at any time, also after a call was settled by its timeout.
C35_NoEarlierProcessAlive == Cardinality(Alive) <= 1

\* the ids of the executor calls started by this step
StartedIds == {c.sessionId : c \in calls' \ calls}

\* C36: a session id that has been handed to cleanup is never passed to an
\* executor call that starts afterwards, is not the id of an executor call
\* in flight at the moment of the hand-off, and is never the current or the
\* pending session id again.
C36_CleanedIdIsDead ==
    /\ [](session.sessionId \notin cleaned
          /\ \A i \in 1..Len(nextSession) : nextSession[i].sessionId \notin cleaned)
    /\ [][/\ StartedIds \cap cleaned' = {}
          /\ \A c \in calls : c.sessionId \notin (cleaned' \ cleaned)]_vars

\* a drain loop resumes from its await in this step
LoopResumes == settledCount' = settledCount + 1

\* C37: no task is stranded: whenever the queue is non-empty a drain loop is
\* active; a loop that resumes with a task waiting takes the oldest one in
\* the same step and stays, and leaves only with the queue empty, clearing
\* the processing flag in that same step; an execute call that finds no
\* loop running starts one that takes its task at once.
C37_NoStrandedTask ==
    /\ [](queue # <<>> => loops # {})
    /\ [][/\ (LoopResumes /\ queue # <<>>) =>
                /\ queue' = Tail(queue)
                /\ invoked' = Head(queue)
                /\ Cardinality(loops') = Cardinality(loops)
          /\ (LoopResumes /\ queue = <<>>) =>
                /\ queue' = <<>>
                /\ ~ processing'
                /\ Cardinality(loops') = Cardinality(loops) - 1
          /\ (submitted' = submitted + 1 /\ ~ processing) =>
                /\ queue' = queue
                /\ invoked' = submitted'
                /\ processing'
                /\ Cardinality(loops') = Cardinality(loops) + 1]_vars

\* a task is submitted after the running task has returned and before the
\* loop has resumed: it waits, and the loop is there to take it
C37_Witness ==
    /\ queue # <<>>
    /\ settledCount >= 1
    /\ \A L \in loops : L.pc = "settle"

\* an executor call returns in this step
CallReturns == calls \ calls' # {}

\* C38: a search or pre-warm ping that was in flight when reset() was called
\* does not change the session id, searchCount or the pending session when
\* it completes: while no execute call has acted on the cleared state
\* (the session id is still absent), a returning call leaves them alone.
C38_StaleReturnChangesNothing ==
    [][(resetsLeft < MaxResetsReset /\ session.sessionId = 0 /\ CallReturns)
          => UNCHANGED <<session, nextSession>>]_vars

\* the pre-warm pings in flight
PreWarmPings == {c \in calls : c.kind = "prewarm"}

\* C39: at most one pre-warm ping is in flight at any time and none is in
\* flight while the pending session is populated, so a populated pending
\* session is never overwritten by a second pre-warmed session before it
\* has been consumed.
C39_OnePingNoOverwrite ==
    /\ [](Cardinality(PreWarmPings) <= 1 /\ (nextSession # <<>> => PreWarmPings = {}))
    /\ [][nextSession # <<>> => nextSession' \in {nextSession, <<>>}]_vars

\* C40: in every reachable state, if the current session id is absent then
\* searchCount is 0.
C40_NoIdNoCount == session.sessionId = 0 => session.searchCount = 0

====
